---- MODULE Spec2Model ----
(***************************************************************************)
(* A model of src/src/Table.js (dynamodb-onetable): the crypto subsystem   *)
(* (initCrypto / encrypt / decrypt), the operation dispatcher (execute,    *)
(* batchGet, batchWrite, transact) and the table definition builder        *)
(* (createTable, deleteTable).                                             *)
(*                                                                         *)
(* Strings are sequences of one-character strings.  Every handler is one   *)
(* atomic action; what it returned or threw is left in `ret`, the calls it *)
(* made to its collaborators (log, client, service, metrics), in order, in *)
(* `events`.                                                               *)
(***************************************************************************)
EXTENDS Integers, Sequences, FiniteSets, TLC

VARIABLES
    crypto,     \* this.crypto: Undefined, or a map profile name -> profile
    V3,         \* this.V3: the client generation flag
    metrics,    \* TRUE iff this.metrics is attached
    indexes,    \* this.schema.indexes, as the sequence Object.entries() walks
    call,       \* the last call made on the table: its name and arguments
    ret,        \* what that call returned or threw
    events,     \* the collaborator calls that call made, in order
    info        \* params.info after the call: the caller's output slot

vars == <<crypto, V3, metrics, indexes, call, ret, events, info>>

\* JavaScript's {} and [] are told apart: an object is a map from property
\* names, an array a sequence.
Obj(fields) == [kind |-> "object", fields |-> fields]
Arr(items) == [kind |-> "array", items |-> items]
EmptyObject == Obj(<<>>)
EmptyArray == Arr(<<>>)
NoInfo == [set |-> FALSE]

Returned(v) == [threw |-> FALSE, value |-> v]
Thrown(e) == [threw |-> TRUE, value |-> e]

NoCall == [op |-> "none"]

(***************************************************************************)
(* Bounds                                                                  *)
(***************************************************************************)
MaxLen == 2         \* longest plaintext handed to encrypt
MaxFields == 5      \* most colon-separated fields in a hand-made token
IVBytes == {0, 171} \* the bytes the random initialization vectors are made of
MaxItems == 2       \* most items in a batch or transaction response
MaxSecondary == 2   \* most secondary indexes of a schema

(***************************************************************************)
(* Characters, bytes and encodings                                         *)
(***************************************************************************)
B64Chars ==
    <<"A","B","C","D","E","F","G","H","I","J","K","L","M","N","O","P",
      "Q","R","S","T","U","V","W","X","Y","Z","a","b","c","d","e","f",
      "g","h","i","j","k","l","m","n","o","p","q","r","s","t","u","v",
      "w","x","y","z","0","1","2","3","4","5","6","7","8","9","+","/">>

HexChars == <<"0","1","2","3","4","5","6","7","8","9","a","b","c","d","e","f">>

IndexOf(seq, c) ==
    IF \E i \in 1..Len(seq) : seq[i] = c
    THEN (CHOOSE i \in 1..Len(seq) : seq[i] = c) - 1
    ELSE -1

\* The utf8 code of a character of the model's alphabet.
Code(c) ==
    LET i == IndexOf(B64Chars, c) IN
    IF c = ":" THEN 58
    ELSE IF c = "=" THEN 61
    ELSE IF c = "?" THEN 63
    ELSE IF i < 0 THEN 63
    ELSE IF i < 26 THEN 65 + i
    ELSE IF i < 52 THEN 97 + (i - 26)
    ELSE IF i < 62 THEN 48 + (i - 52)
    ELSE IF i = 62 THEN 43
    ELSE 47

\* The character of a utf8 code; a byte that is no character of the alphabet
\* decodes to the replacement character.
Chr(b) ==
    IF b = 58 THEN ":"
    ELSE IF b = 61 THEN "="
    ELSE IF b >= 65 /\ b <= 90 THEN B64Chars[b - 65 + 1]
    ELSE IF b >= 97 /\ b <= 122 THEN B64Chars[b - 97 + 27]
    ELSE IF b >= 48 /\ b <= 57 THEN B64Chars[b - 48 + 53]
    ELSE IF b = 43 THEN "+"
    ELSE IF b = 47 THEN "/"
    ELSE "?"

Utf8Bytes(text) == [i \in 1..Len(text) |-> Code(text[i])]
Utf8Text(bytes) == [i \in 1..Len(bytes) |-> Chr(bytes[i])]

RECURSIVE SumSeq(_)
SumSeq(s) == IF s = <<>> THEN 0 ELSE Head(s) + SumSeq(Tail(s))

RECURSIVE Flatten(_)
Flatten(ss) == IF ss = <<>> THEN <<>> ELSE Head(ss) \o Flatten(Tail(ss))

\* Buffer.toString('hex')
ToHex(bytes) ==
    Flatten([i \in 1..Len(bytes) |->
        <<HexChars[(bytes[i] \div 16) + 1], HexChars[(bytes[i] % 16) + 1]>>])

\* Buffer.from(text, 'hex'): whole pairs of hex digits, up to the first pair
\* that is not one.
RECURSIVE FromHex(_)
FromHex(text) ==
    IF Len(text) < 2 THEN <<>>
    ELSE LET hi == IndexOf(HexChars, text[1])
             lo == IndexOf(HexChars, text[2])
         IN  IF hi < 0 \/ lo < 0 THEN <<>>
             ELSE <<hi * 16 + lo>> \o FromHex(SubSeq(text, 3, Len(text)))

\* base64 of a byte sequence, three bytes to four characters, '=' padded.
RECURSIVE ToBase64(_)
ToBase64(bytes) ==
    IF Len(bytes) = 0 THEN <<>>
    ELSE IF Len(bytes) = 1 THEN
        <<B64Chars[(bytes[1] \div 4) + 1],
          B64Chars[((bytes[1] % 4) * 16) + 1], "=", "=">>
    ELSE IF Len(bytes) = 2 THEN
        <<B64Chars[(bytes[1] \div 4) + 1],
          B64Chars[((bytes[1] % 4) * 16 + (bytes[2] \div 16)) + 1],
          B64Chars[((bytes[2] % 16) * 4) + 1], "=">>
    ELSE
        <<B64Chars[(bytes[1] \div 4) + 1],
          B64Chars[((bytes[1] % 4) * 16 + (bytes[2] \div 16)) + 1],
          B64Chars[((bytes[2] % 16) * 4 + (bytes[3] \div 64)) + 1],
          B64Chars[(bytes[3] % 64) + 1]>>
        \o ToBase64(SubSeq(bytes, 4, Len(bytes)))

\* The six-bit values of the base64 characters of a text, up to the first
\* padding character; characters outside the alphabet are skipped.
RECURSIVE B64Values(_)
B64Values(text) ==
    IF text = <<>> \/ Head(text) = "=" THEN <<>>
    ELSE LET v == IndexOf(B64Chars, Head(text)) IN
         IF v < 0 THEN B64Values(Tail(text))
         ELSE <<v>> \o B64Values(Tail(text))

RECURSIVE B64Bytes(_)
B64Bytes(v) ==
    IF Len(v) < 2 THEN <<>>
    ELSE IF Len(v) = 2 THEN <<v[1] * 4 + (v[2] \div 16)>>
    ELSE IF Len(v) = 3 THEN
        <<v[1] * 4 + (v[2] \div 16), (v[2] % 16) * 16 + (v[3] \div 4)>>
    ELSE
        <<v[1] * 4 + (v[2] \div 16), (v[2] % 16) * 16 + (v[3] \div 4),
          (v[3] % 4) * 64 + v[4]>>
        \o B64Bytes(SubSeq(v, 5, Len(v)))

\* Buffer.from(text, 'base64')
FromBase64(text) == B64Bytes(B64Values(text))

\* String.prototype.split(':')
RECURSIVE SplitFrom(_, _, _, _)
SplitFrom(s, i, cur, acc) ==
    IF i > Len(s) THEN Append(acc, cur)
    ELSE IF s[i] = ":" THEN SplitFrom(s, i + 1, <<>>, Append(acc, cur))
    ELSE SplitFrom(s, i + 1, Append(cur, s[i]), acc)

Split(s) == SplitFrom(s, 1, <<>>, <<>>)

\* fields joined with ':' (the template string of encrypt)
RECURSIVE Join(_)
Join(fields) ==
    IF Len(fields) = 0 THEN <<>>
    ELSE IF Len(fields) = 1 THEN fields[1]
    ELSE fields[1] \o <<":">> \o Join(Tail(fields))

(***************************************************************************)
(* Crypto subsystem                                                        *)
(***************************************************************************)
IV_LENGTH == 16

\* The length of a GCM authentication tag, and the lengths setAuthTag takes.
TAG_LENGTH == 16
ValidTagLengths == {4, 8, 12, 13, 14, 15, 16}

PrimaryName == <<"p","r","i","m","a","r","y">>
OldName == <<"o","l","d">>
ProfileNames == {PrimaryName, OldName}

Ciphers == {"aes-256-gcm", "aes-256-cbc"}

\* crypto.cipher.indexOf('-gcm') > 0
IsGcm(cipher) == cipher \in {"aes-256-gcm"}

PasswordOf(name) == IF name = PrimaryName THEN <<"a","b">> ELSE <<"b","a","c">>

\* Crypto.createHash('sha256').update(password, 'utf8').digest(), abstracted
\* to one byte: a fixed function of the password's bytes.
Sha256(password) ==
    LET b == Utf8Bytes(password) IN
    (SumSeq([i \in 1..Len(b) |-> b[i] * (i + 30)]) + 7) % 256

NoCrypto == [defined |-> FALSE, map |-> <<>>]

\* initCrypto: every profile gets its secret and its name.
InstallProfiles(config) ==
    [defined |-> TRUE,
     map |-> [name \in DOMAIN config |->
                [cipher |-> config[name].cipher,
                 password |-> config[name].password,
                 secret |-> Sha256(config[name].password),
                 name |-> name]]]

\* What a caller may pass as params.crypto.
CryptoConfigs ==
    UNION {[names -> Ciphers] : names \in SUBSET ProfileNames}

ConfigOf(ciphers) ==
    [name \in DOMAIN ciphers |->
        [cipher |-> ciphers[name], password |-> PasswordOf(name)]]

\* Crypto.randomBytes(IV_LENGTH)
IVs == {[i \in 1..IV_LENGTH |-> b] : b \in IVBytes}

IvVal(ivb) == (SumSeq(ivb) + Len(ivb)) % 256

\* The symmetric cipher, abstracted to a keyed, invertible map on bytes.
CipherBytes(bytes, secret, ivb) ==
    [i \in 1..Len(bytes) |-> (bytes[i] + secret + IvVal(ivb) + i) % 256]

DecipherBytes(bytes, secret, ivb) ==
    [i \in 1..Len(bytes) |-> (bytes[i] + 768 - secret - IvVal(ivb) - i) % 256]

\* crypt.getAuthTag(): a keyed digest of the ciphertext.
AuthTag(cbytes, secret, ivb) ==
    LET mac == (SumSeq([i \in 1..Len(cbytes) |-> cbytes[i] * i])
                + 3 * secret + IvVal(ivb)) % 256
    IN  [i \in 1..TAG_LENGTH |-> (mac + 7 * i) % 256]

encrypt(cr, text, name, iv) ==
    IF text = <<>> THEN Returned(text)
    ELSE IF ~cr.defined THEN Thrown("No database secret or cipher defined")
    ELSE IF name \notin DOMAIN cr.map THEN Thrown("Database crypto not defined")
    ELSE LET profile == cr.map[name]
             cbytes == CipherBytes(Utf8Bytes(text), profile.secret, iv)
             crypted == ToBase64(cbytes)
             tag == IF IsGcm(profile.cipher)
                    THEN ToBase64(AuthTag(cbytes, profile.secret, iv))
                    ELSE <<>>
         IN  Returned(Join(<<profile.name, tag, ToHex(iv), crypted>>))

\* !x of a destructured field: undefined (no such field) or the empty string
Falsy(fields, i) == i > Len(fields) \/ fields[i] = <<>>

\* if (!crypto) throw new Error(`dynamo: Database crypto not defined for ${name}`)
UnknownProfile_AsPlaintext(text, name) == Returned(text)
UnknownProfile(text, name) == Thrown("Database crypto not defined")

decrypt(cr, text) ==
    IF text = <<>> THEN Returned(text)
    ELSE LET fields == Split(text) IN
    IF Falsy(fields, 4) \/ Falsy(fields, 3) \/ Falsy(fields, 2) \/ Falsy(fields, 1)
    THEN Returned(text)
    ELSE IF ~cr.defined THEN Thrown("No database secret or cipher defined")
    ELSE IF fields[1] \notin DOMAIN cr.map THEN UnknownProfile(text, fields[1])
    ELSE LET profile == cr.map[fields[1]]
             ivb == FromHex(fields[3])
             tagb == FromBase64(fields[2])
             cbytes == FromBase64(fields[4])
         IN
         \* createDecipheriv: GCM takes any non-empty IV, CBC one block
         IF (IsGcm(profile.cipher) /\ Len(ivb) = 0)
            \/ (~IsGcm(profile.cipher) /\ Len(ivb) # IV_LENGTH)
         THEN Thrown("Invalid initialization vector")
         \* setAuthTag: only for an authenticated mode, and a valid length
         ELSE IF ~IsGcm(profile.cipher) THEN Thrown("Invalid state for operation setAuthTag")
         ELSE IF Len(tagb) \notin ValidTagLengths
         THEN Thrown("Invalid authentication tag length")
         \* final: the tag is verified
         ELSE IF tagb # SubSeq(AuthTag(cbytes, profile.secret, ivb), 1, Len(tagb))
         THEN Thrown("Unsupported state or unable to authenticate data")
         ELSE Returned(Utf8Text(DecipherBytes(cbytes, profile.secret, ivb)))

\* Inputs
PlainChars == {"a", ":"}
Texts == UNION {[1..n -> PlainChars] : n \in 0..MaxLen}

FieldVals == {<<>>, <<"a","b">>, PrimaryName}
HandMade == {Join(f) : f \in UNION {[1..n -> FieldVals] : n \in 1..MaxFields}}

\* What decrypt may be handed: plain text, a hand-made token, the token the
\* last encrypt returned, or that token with a further field appended.
DecryptInputs ==
    Texts \cup HandMade
    \cup (IF call.op = "encrypt" /\ ~ret.threw
          THEN {ret.value, ret.value \o <<":", "a">>}
          ELSE {})

InitCrypto ==
    /\ call = NoCall
    /\ \E c \in CryptoConfigs :
        /\ crypto' = InstallProfiles(ConfigOf(c))
        /\ call' = [op |-> "initCrypto", config |-> c]
    /\ ret' = Returned(<<>>)
    /\ events' = <<>>
    /\ UNCHANGED <<V3, metrics, indexes, info>>

Encrypt ==
    /\ call = NoCall
    /\ \E text \in Texts, name \in ProfileNames, iv \in IVs :
        /\ call' = [op |-> "encrypt", text |-> text, name |-> name, iv |-> iv]
        /\ ret' = encrypt(crypto, text, name, iv)
    /\ events' = <<>>
    /\ UNCHANGED <<crypto, V3, metrics, indexes, info>>

Decrypt ==
    /\ call.op \in {"none", "encrypt"}
    /\ \E text \in DecryptInputs :
        /\ call' = [op |-> "decrypt", text |-> text]
        /\ ret' = decrypt(crypto, text)
    /\ events' = <<>>
    /\ UNCHANGED <<crypto, V3, metrics, indexes, info>>

\* The caller takes the outcome of the call; the table is idle again.  No
\* handler keeps state of its own from one call to the next.
Done ==
    /\ call # NoCall
    /\ call' = NoCall
    /\ ret' = Returned(<<>>)
    /\ events' = <<>>
    /\ info' = NoInfo
    /\ UNCHANGED <<crypto, V3, metrics, indexes>>

\* The constructor: crypto profiles are installed iff params.crypto is given.
InitCryptoSpec ==
    /\ crypto \in {NoCrypto} \cup {InstallProfiles(ConfigOf(c)) : c \in CryptoConfigs}
    /\ V3 = TRUE
    /\ metrics = FALSE
    /\ indexes = <<>>
    /\ call = NoCall
    /\ ret = Returned(<<>>)
    /\ events = <<>>
    /\ info = NoInfo

NextCrypto == InitCrypto \/ Encrypt \/ Decrypt \/ Done

SpecCrypto == InitCryptoSpec /\ [][NextCrypto]_vars

\* C1: for every non-empty string x and every installed profile, GCM or not,
\* decrypting the token encrypt(x, profile) returned gives back x.
C1_RoundTrip ==
    (call.op = "decrypt" /\ crypto.defined)
    => \A x \in Texts \ {<<>>}, name \in DOMAIN crypto.map, iv \in IVs :
         encrypt(crypto, x, name, iv) = Returned(call.text)
         => ret = Returned(x)

\* C2: decrypt of a non-empty token that does not split on ':' into exactly
\* four fields returns the token unchanged and throws nothing.
C2_NotFourFields ==
    (call.op = "decrypt" /\ call.text # <<>> /\ Len(Split(call.text)) # 4)
    => ret = Returned(call.text)

(***************************************************************************)
(* Operation dispatcher                                                    *)
(***************************************************************************)
DocumentClientMethods ==
    [delete |-> "delete", get |-> "get", find |-> "query", put |-> "put",
     scan |-> "scan", update |-> "update", batchGet |-> "batchGet",
     batchWrite |-> "batchWrite", transactGet |-> "transactGet",
     transactWrite |-> "transactWrite"]

DynamoOps ==
    [delete |-> "deleteItem", get |-> "getItem", find |-> "query",
     put |-> "putItem", scan |-> "scan", update |-> "updateItem",
     batchGet |-> "batchGet", batchWrite |-> "batchWrite",
     transactGet |-> "transactGet", transactWrite |-> "transactWrite"]

Ops == DOMAIN DocumentClientMethods

GenericModel == "_Generic"

\* The schema collaborator: the models by type tag, and the reserved
\* uniqueness model.
UniqueModel == "_Unique"
SchemaModels == {"User", UniqueModel}
TypeField == "_type"

\* Attribute values carry their type: a native string, a string in the V3
\* wire format, a native set, the legacy client's set wrapper.
Str(v) == [t |-> "string", v |-> v]
WireS(v) == [t |-> "S", v |-> v]

\* Table.unmarshallv2: only the legacy set wrapper is converted.
unmarshallv2(item) ==
    [key \in DOMAIN item |->
        IF item[key].t = "SetWrapper"
        THEN [t |-> "Set",
              v |-> {IF item[key].type = "Binary"
                     THEN [t |-> "Uint8Array", v |-> item[key].values[i].v]
                     ELSE item[key].values[i] : i \in 1..Len(item[key].values)}]
        ELSE item[key]]

\* The V3 client's unmarshall: wire attribute values to native ones.
ClientUnmarshall(item) ==
    [key \in DOMAIN item |->
        IF item[key].t = "S" THEN Str(item[key].v)
        ELSE IF item[key].t = "SS"
        THEN [t |-> "Set", v |-> {Str(item[key].v[i]) : i \in 1..Len(item[key].v)}]
        ELSE IF item[key].t = "BS"
        THEN [t |-> "Set",
              v |-> {[t |-> "Uint8Array", v |-> item[key].v[i]] :
                        i \in 1..Len(item[key].v)}]
        ELSE item[key]]

\* Table.unmarshall of one item
unmarshall(item) == IF V3 THEN ClientUnmarshall(item) ELSE unmarshallv2(item)

\* model.transformReadItem('get', item, {}, params) of the model collaborator
TransformReadItem(model, item) == [model |-> model, item |-> item]

\* The loop body shared by batchGet and transact: the item is unmarshalled,
\* resolved by its type field, and kept if it has a model other than the
\* uniqueness model.
ParseItem(wire) ==
    LET item == unmarshall(wire)
        type == IF TypeField \in DOMAIN item THEN item[TypeField].v ELSE "_unknown"
    IN  IF type \in SchemaModels /\ type # UniqueModel
        THEN <<TransformReadItem(type, item)>>
        ELSE <<>>

ParseItems(wires) == Flatten([i \in 1..Len(wires) |-> ParseItem(wires[i])])

\* params of a call: throw, log are "unset", "true" or "false"
ParamSets ==
    [throw : {"unset", "true", "false"}, log : {"unset", "true", "false"},
     stats : BOOLEAN, parse : BOOLEAN, consistent : BOOLEAN, info : BOOLEAN]

\* params = {}
NoParams ==
    [throw |-> "unset", log |-> "unset", stats |-> FALSE, parse |-> FALSE,
     consistent |-> FALSE, info |-> FALSE]

ConditionalCheckFailed == "ConditionalCheckFailedException"
ErrorCodes == {ConditionalCheckFailed, "ThrottlingException"}
ClientError(code) == [code |-> code, message |-> "client error"]

LogEvent(level, trace, err) ==
    [type |-> "log", level |-> level, trace |-> trace, err |-> err]
ClientEvent(method, cmd) == [type |-> "client", method |-> method, cmd |-> cmd]
MetricsEvent_NoOptions(model, op, result, params, mark) ==
    [type |-> "metrics", model |-> model, op |-> op, result |-> result,
     params |-> NoParams, mark |-> mark]
MetricsEvent(model, op, result, params, mark) ==
    [type |-> "metrics", model |-> model, op |-> op, result |-> result,
     params |-> params, mark |-> mark]
DateEvent == [type |-> "date"]

NoErr == [code |-> "none"]

\* params.throw === false, the first test of the catch block
Suppresses_ConflictFirst(params, err, op) ==
    params.throw = "false" /\ ~(err.code = ConditionalCheckFailed /\ op = "put")
Suppresses(params, err, op) == params.throw = "false"

\* err.code == 'ConditionalCheckFailedException' && op == 'put'
IsExpectedConflict_AnyOp(err, op) == err.code = ConditionalCheckFailed
IsExpectedConflict(err, op) == err.code = ConditionalCheckFailed /\ op = "put"

\* Object.getOwnPropertyNames(batch).length == 0
IsEmptyBatch_AfterConsistentRead(batch) ==
    DOMAIN ("ConsistentRead" :> FALSE @@ batch) = {}
IsEmptyBatch(batch) == DOMAIN batch = {}

\* Table.execute.  `outcome` is what the client call does: it resolves with
\* outcome.result or rejects with outcome.err.  The value is the record of
\* what execute returned or threw, the collaborator calls it made, and the
\* caller's info slot.
execute(model, op, cmd, params, properties, outcome) ==
    LET cmd1 == IF params.stats \/ metrics
                THEN ("ReturnConsumedCapacity" :> "INDEXES"
                      @@ "ReturnItemCollectionMetrics" :> "SIZE" @@ cmd)
                ELSE cmd
        trace == [model |-> model, cmd |-> cmd1, op |-> op,
                  properties |-> properties, err |-> NoErr]
        entry == <<DateEvent,
                   LogEvent(IF params.log = "true" THEN "info" ELSE "trace",
                            trace, NoErr),
                   ClientEvent(IF V3 THEN op ELSE DocumentClientMethods[op], cmd1)>>
        \* the finally block, for a result that is set
        add(result) == IF metrics
                       THEN <<MetricsEvent(model, op, result, params, 1)>>
                       ELSE <<>>
        infoOut == IF params.info
                   THEN [set |-> TRUE, operation |-> DynamoOps[op],
                         args |-> cmd1, properties |-> properties]
                   ELSE NoInfo
    IN  IF outcome.ok THEN
            [ret |-> Returned(outcome.result),
             events |-> entry \o add(outcome.result),
             info |-> infoOut]
        ELSE IF Suppresses(params, outcome.err, op) THEN
            [ret |-> Returned(EmptyObject),
             events |-> entry \o add(EmptyObject),
             info |-> infoOut]
        ELSE IF IsExpectedConflict(outcome.err, op) THEN
            [ret |-> Thrown([message |-> "Conditional create failed for",
                             model |-> model]),
             events |-> Append(entry, LogEvent("info", trace, outcome.err)),
             info |-> NoInfo]
        ELSE
            LET traceErr == [trace EXCEPT !.err = outcome.err] IN
            [ret |-> Thrown(outcome.err),
             events |-> entry
                        \o (IF params.log # "false"
                            THEN <<LogEvent("error", traceErr, outcome.err)>>
                            ELSE <<>>)
                        \o add(Obj("Error" :> 1)),
             info |-> NoInfo]

\* Inputs: wire items, by type tag
ItemTypes == {"User", UniqueModel, "Ghost", "none"}

WireItem(type, n) ==
    LET tag(v) == IF V3 THEN WireS(v) ELSE Str(v) IN
    IF type = "none" THEN ("id" :> tag(n))
    ELSE (TypeField :> tag(type) @@ "id" :> tag(n))

ItemSeqs == UNION {[1..n -> ItemTypes] : n \in 0..MaxItems}
WireItems(types) == [i \in 1..Len(types) |-> WireItem(types[i], "x")]

\* transactGet sub-responses: with an Item, or without
SubResponseSeqs == UNION {[1..n -> ItemTypes \cup {"absent"}] : n \in 0..MaxItems}
SubResponses(types) ==
    [i \in 1..Len(types) |->
        IF types[i] = "absent" THEN <<>> ELSE ("Item" :> WireItem(types[i], "x"))]

\* What the client may resolve with, by operation
ClientResults(op) ==
    IF op = "batchGet"
    THEN {Obj("Responses" :> ("T" :> WireItems(t))) : t \in ItemSeqs}
    ELSE IF op = "transactGet"
    THEN {Obj("Responses" :> SubResponses(t)) : t \in SubResponseSeqs}
    ELSE IF op = "transactWrite" THEN {EmptyObject}
    ELSE IF op \in {"get", "put", "update", "delete"}
    THEN {EmptyObject, Obj("Item" :> WireItem("User", "x"))}
    ELSE IF op \in {"find", "scan"}
    THEN {Obj("Items" :> WireItems(t)) : t \in {<<>>, <<"User">>}}
    ELSE {EmptyObject}

ClientOutcomes(op) ==
    {[ok |-> TRUE, result |-> r] : r \in ClientResults(op)}
    \cup {[ok |-> FALSE, err |-> ClientError(c)] : c \in ErrorCodes}

Commands == {("TableName" :> "T")}
Batches == {<<>>, ("RequestItems" :> "T")}

Execute ==
    /\ call = NoCall
    /\ \E op \in Ops, cmd \in Commands, params \in ParamSets :
       \E outcome \in ClientOutcomes(op) :
        LET r == execute("User", op, cmd, params, <<>>, outcome) IN
        /\ call' = [op |-> "execute", model |-> "User", kind |-> op,
                    cmd |-> cmd, params |-> params, outcome |-> outcome]
        /\ ret' = r.ret
        /\ events' = r.events
        /\ info' = r.info
    /\ UNCHANGED <<crypto, V3, metrics, indexes>>

\* Table.batchGet
batchGet(batch, params, outcome) ==
    IF IsEmptyBatch(batch) THEN
        [ret |-> Returned(EmptyArray), events |-> <<>>, info |-> NoInfo]
    ELSE
        LET batch1 == ("ConsistentRead" :> params.consistent @@ batch)
            r == execute(GenericModel, "batchGet", batch1, NoParams, params, outcome)
        IN  IF r.ret.threw THEN r
            ELSE IF params.parse /\ "Responses" \in DOMAIN r.ret.value.fields THEN
                LET response == r.ret.value.fields["Responses"]
                    tables == DOMAIN response
                    \* Object.values(response): one table in the model
                    items == IF tables = {} THEN <<>>
                             ELSE response[CHOOSE t \in tables : TRUE]
                IN  [r EXCEPT !.ret = Returned(Arr(ParseItems(items)))]
            ELSE r

BatchGet ==
    /\ call = NoCall
    /\ \E batch \in Batches, params \in ParamSets :
       \E outcome \in ClientOutcomes("batchGet") :
        LET r == batchGet(batch, params, outcome) IN
        /\ call' = [op |-> "batchGet", batch |-> batch, params |-> params,
                    outcome |-> outcome]
        /\ ret' = r.ret
        /\ events' = r.events
        /\ info' = r.info
    /\ UNCHANGED <<crypto, V3, metrics, indexes>>

\* Table.batchWrite
batchWrite(batch, params, outcome) ==
    IF IsEmptyBatch(batch) THEN
        [ret |-> Returned(EmptyObject), events |-> <<>>, info |-> NoInfo]
    ELSE execute(GenericModel, "batchWrite", batch, params, <<>>, outcome)

BatchWrite ==
    /\ call = NoCall
    /\ \E batch \in Batches, params \in ParamSets :
       \E outcome \in ClientOutcomes("batchWrite") :
        LET r == batchWrite(batch, params, outcome) IN
        /\ call' = [op |-> "batchWrite", batch |-> batch, params |-> params,
                    outcome |-> outcome]
        /\ ret' = r.ret
        /\ events' = r.events
        /\ info' = r.info
    /\ UNCHANGED <<crypto, V3, metrics, indexes>>

TransactKinds == {"write", "get", "read"}

\* op == 'write' ? 'transactWrite' : 'transactGet'
TransactOp(kind) == IF kind = "write" THEN "transactWrite" ELSE "transactGet"

\* Table.transact
transact(kind, transaction, params, outcome) ==
    LET r == execute(GenericModel, TransactOp(kind), transaction, params, <<>>,
                     outcome)
    IN  IF r.ret.threw THEN r
        ELSE IF kind = "get" /\ params.parse THEN
            IF "Responses" \notin DOMAIN r.ret.value.fields
            THEN \* for (let r of undefined)
                 [r EXCEPT !.ret = Thrown([name |-> "TypeError",
                                           message |-> "not iterable"])]
            ELSE LET rs == r.ret.value.fields["Responses"]
                     wires == Flatten([i \in 1..Len(rs) |->
                                 IF "Item" \in DOMAIN rs[i]
                                 THEN <<rs[i]["Item"]>> ELSE <<>>])
                 IN  [r EXCEPT !.ret = Returned(Arr(ParseItems(wires)))]
        ELSE r

Transact ==
    /\ call = NoCall
    /\ \E kind \in TransactKinds, transaction \in Batches, params \in ParamSets :
       \E outcome \in ClientOutcomes(TransactOp(kind)) :
        LET r == transact(kind, transaction, params, outcome) IN
        /\ call' = [op |-> "transact", kind |-> kind, batch |-> transaction,
                    params |-> params, outcome |-> outcome]
        /\ ret' = r.ret
        /\ events' = r.events
        /\ info' = r.info
    /\ UNCHANGED <<crypto, V3, metrics, indexes>>

\* The constructor: either client generation, metrics attached or not.
InitDispatch ==
    /\ crypto = NoCrypto
    /\ V3 \in BOOLEAN
    /\ metrics \in BOOLEAN
    /\ indexes = <<>>
    /\ call = NoCall
    /\ ret = Returned(<<>>)
    /\ events = <<>>
    /\ info = NoInfo

NextDispatch == Execute \/ BatchGet \/ BatchWrite \/ Transact \/ Done

SpecDispatch == InitDispatch /\ [][NextDispatch]_vars

\* The error the client call of the last call rejected with
ClientErr == call.outcome.err

ExecuteFailed == call.op = "execute" /\ ~call.outcome.ok

LoggedAt(level, err) ==
    \E i \in 1..Len(events) :
        events[i].type = "log" /\ events[i].level = level /\ events[i].err = err

\* C3: unless the caller passed throw === false, a conditional-check failure
\* of a put makes execute raise a distinct error that names the model, logged
\* at info and not at error severity; a failure of any other operation kind
\* or with any other code re-raises the client's own error unchanged.
C3_ExpectedConflict ==
    (ExecuteFailed /\ call.params.throw # "false")
    => IF call.kind = "put" /\ ClientErr.code = ConditionalCheckFailed
       THEN /\ ret.threw
            /\ ret.value # ClientErr
            /\ ret.value.model = call.model
            /\ LoggedAt("info", ClientErr)
            /\ ~LoggedAt("error", ClientErr)
       ELSE ret = Thrown(ClientErr)

C3_Witness ==
    /\ ExecuteFailed
    /\ call.params.throw = "unset"
    /\ call.kind = "put"
    /\ ClientErr.code = ConditionalCheckFailed
    /\ ret.threw
    /\ LoggedAt("info", ClientErr)

\* C4: with throw === false, execute returns an empty mapping and raises
\* nothing, for every operation kind and every failure of the client call.
C4_Suppressed ==
    (ExecuteFailed /\ call.params.throw = "false")
    => ret = Returned(EmptyObject)

C4_Witness ==
    /\ ExecuteFailed
    /\ call.params.throw = "false"
    /\ call.kind = "put"
    /\ ClientErr.code = ConditionalCheckFailed
    /\ ret = Returned(EmptyObject)

\* C5: batchGet, batchWrite and transact, called with a non-empty payload and
\* throw === false, return an empty result and raise nothing when the client
\* call fails.
C5_SuppressedThroughBatch ==
    (/\ call.op \in {"batchGet", "batchWrite", "transact"}
     /\ DOMAIN call.batch # {}
     /\ call.params.throw = "false"
     /\ ~call.outcome.ok)
    => (~ret.threw /\ ret.value \in {EmptyObject, EmptyArray})

InvokedCollaborator(type) ==
    \E i \in 1..Len(events) : events[i].type = type

\* C6: on an empty batch, batchGet returns an empty sequence and batchWrite
\* an empty mapping; the client is not invoked and no metrics are recorded.
C6_EmptyBatch ==
    /\ (call.op = "batchGet" /\ DOMAIN call.batch = {})
       => /\ ret = Returned(EmptyArray)
          /\ ~InvokedCollaborator("client")
          /\ ~InvokedCollaborator("metrics")
    /\ (call.op = "batchWrite" /\ DOMAIN call.batch = {})
       => /\ ret = Returned(EmptyObject)
          /\ ~InvokedCollaborator("client")
          /\ ~InvokedCollaborator("metrics")

C6_Witness ==
    /\ call.op = "batchGet"
    /\ DOMAIN call.batch = {}
    /\ metrics
    /\ ret = Returned(EmptyArray)
    /\ events = <<>>

\* The model items of a transactGet result: of the sub-responses that carry
\* an item, those whose type has a model other than the uniqueness model.
ModelItemsOf(result) ==
    LET rs == result.fields["Responses"]
        RECURSIVE Items(_)
        Items(i) ==
            IF i > Len(rs) THEN <<>>
            ELSE IF "Item" \notin DOMAIN rs[i] THEN Items(i + 1)
            ELSE LET item == unmarshall(rs[i]["Item"])
                     known == /\ TypeField \in DOMAIN item
                              /\ item[TypeField].v \in SchemaModels \ {UniqueModel}
                 IN  IF known
                     THEN <<TransformReadItem(item[TypeField].v, item)>> \o Items(i + 1)
                     ELSE Items(i + 1)
    IN  Items(1)

ClientMethods ==
    {events[i].method : i \in {j \in 1..Len(events) : events[j].type = "client"}}

\* C7: transact dispatches transactWrite for kind 'write' and transactGet for
\* every other kind; for every kind dispatched as transactGet, with parse
\* requested, the value returned is the sequence of the result's model items.
C7_TransactParse ==
    call.op = "transact"
    => /\ ClientMethods = {IF call.kind = "write" THEN "transactWrite"
                           ELSE "transactGet"}
       /\ (call.kind # "write" /\ call.params.parse /\ call.outcome.ok)
          => ret = Returned(Arr(ModelItemsOf(call.outcome.result)))

(***************************************************************************)
(* Table definition builder                                                *)
(***************************************************************************)
ConfirmRemoveTable == "DeleteTableForever"

TableName == "T"

\* An index of this.schema.indexes: its name (the key of the map), its hash
\* and sort attributes (Null when not declared) and its projection:
\* "undefined", the string "keys", another string, or a list of attributes.
Null == "null"
Index(name, hash, sort, project) ==
    [name |-> name, hash |-> hash, sort |-> sort, project |-> project]

ProjectedAttributes == <<"data">>

\* A valid schema declares the index named primary.
HasPrimary(ixs) == \E i \in 1..Len(ixs) : ixs[i].name = "primary"

\* indexes.primary
Primary(ixs) == ixs[CHOOSE i \in 1..Len(ixs) : ixs[i].name = "primary"]

\* `attributes` is created as {}: reading a name it does not hold itself
\* finds what Object.prototype holds under that name.
ObjectPrototypeNames == {"constructor", "toString", "valueOf", "hasOwnProperty"}
Holds(attributes, name) == name \in attributes \/ name \in ObjectPrototypeNames

\* index.hash == null || index.hash == indexes.primary.hash
IsLocal_HashDeclared(index, primary) == index.hash = primary.hash
IsLocal(index, primary) == index.hash = Null \/ index.hash = primary.hash

\* The Projection of a secondary index
Projection(index) ==
    IF index.project = "list"
    THEN ("ProjectionType" :> "INCLUDE" @@ "NonKeyAttributes" :> ProjectedAttributes)
    ELSE IF index.project = "keys" THEN ("ProjectionType" :> "KEYS_ONLY")
    ELSE ("ProjectionType" :> "ALL")

\* The key schema entries one index contributes
KeysOf(index, primary) ==
    <<[AttributeName |-> IF index.hash # Null THEN index.hash ELSE primary.hash,
       KeyType |-> "HASH"]>>
    \o (IF index.sort # Null
        THEN <<[AttributeName |-> index.sort, KeyType |-> "RANGE"]>>
        ELSE <<>>)

AttributeDefinition(name) == [AttributeName |-> name, AttributeType |-> "S"]

\* The attribute definitions one index adds, given the names `attributes`
\* already marks.
NewAttributes(index, attributes) ==
    LET h == IF index.hash # Null /\ ~Holds(attributes, index.hash)
             THEN <<index.hash>> ELSE <<>>
        marked == attributes \cup {h[i] : i \in 1..Len(h)}
        s == IF index.sort # Null /\ ~Holds(marked, index.sort)
             THEN <<index.sort>> ELSE <<>>
    IN  h \o s

\* The loop of createTable over Object.entries(indexes), from entry i on.
\* b is the definition so far with the set of marked attribute names; the
\* value has failed = TRUE when the loop threw.
RECURSIVE BuildFrom(_, _, _)
BuildFrom(ixs, i, b) ==
    IF i > Len(ixs) THEN b
    ELSE
    LET index == ixs[i]
        primary == Primary(ixs)
        keys == KeysOf(index, primary)
        added == NewAttributes(index, b.attributes)
        b1 == [b EXCEPT
                 !.AttributeDefinitions =
                     @ \o [j \in 1..Len(added) |-> AttributeDefinition(added[j])],
                 !.attributes = @ \cup {added[j] : j \in 1..Len(added)}]
        projDef == [IndexName |-> index.name, KeySchema |-> keys,
                    Projection |-> Projection(index),
                    ProvisionedThroughput |-> FALSE]
    IN  IF index.name = "primary"
        THEN BuildFrom(ixs, i + 1, [b1 EXCEPT !.KeySchema = @ \o keys])
        ELSE IF IsLocal(index, primary) THEN
            IF index.project # "undefined"
            THEN [b EXCEPT !.failed = TRUE]
            ELSE BuildFrom(ixs, i + 1,
                    [b1 EXCEPT !.LocalSecondaryIndexes = Append(@, projDef)])
        ELSE BuildFrom(ixs, i + 1,
                [b1 EXCEPT !.GlobalSecondaryIndexes = Append(@, projDef)])

\* The fields of def deleted after the loop: a collection that is empty.
EmptyCollections_GlobalOnly(b) ==
    IF b.GlobalSecondaryIndexes = <<>> THEN {"GlobalSecondaryIndexes"} ELSE {}
EmptyCollections(b) ==
    (IF b.GlobalSecondaryIndexes = <<>> THEN {"GlobalSecondaryIndexes"} ELSE {})
    \cup (IF b.LocalSecondaryIndexes = <<>> THEN {"LocalSecondaryIndexes"} ELSE {})

\* The definition createTable sends, or failed = TRUE.
TableDefinition(ixs, provisioned) ==
    LET b == BuildFrom(ixs, 1,
                [AttributeDefinitions |-> <<>>, KeySchema |-> <<>>,
                 LocalSecondaryIndexes |-> <<>>, GlobalSecondaryIndexes |-> <<>>,
                 attributes |-> {}, failed |-> FALSE])
        gsis == [j \in 1..Len(b.GlobalSecondaryIndexes) |->
                    [b.GlobalSecondaryIndexes[j] EXCEPT
                        !.ProvisionedThroughput = provisioned]]
        full == ("AttributeDefinitions" :> b.AttributeDefinitions
                 @@ "KeySchema" :> b.KeySchema
                 @@ "LocalSecondaryIndexes" :> b.LocalSecondaryIndexes
                 @@ "GlobalSecondaryIndexes" :> gsis
                 @@ "TableName" :> TableName
                 @@ "BillingMode" :> (IF provisioned THEN "PROVISIONED"
                                      ELSE "PAY_PER_REQUEST")
                 @@ "ProvisionedThroughput" :> provisioned)
        kept == DOMAIN full \ EmptyCollections(b)
    IN  [failed |-> b.failed, def |-> [k \in kept |-> full[k]]]

ServiceEvent(method, arg) == [type |-> "service", method |-> method, arg |-> arg]
TraceEvent == [type |-> "log", level |-> "trace", trace |-> NoErr, err |-> NoErr]

\* Table.createTable.  serviceOk: whether the service call resolves.
createTable(ixs, provisioned, serviceOk) ==
    LET t == TableDefinition(ixs, provisioned) IN
    IF t.failed
    THEN [ret |-> Thrown("Unwanted project for LSI"), events |-> <<>>]
    ELSE [ret |-> IF serviceOk THEN Returned(Obj("TableDescription" :> TableName))
                  ELSE Thrown("service error"),
          events |-> <<TraceEvent, ServiceEvent("createTable", t.def)>>]

\* confirmation == ConfirmRemoveTable
IsConfirmed(confirmation) == confirmation = ConfirmRemoveTable

\* Table.deleteTable
deleteTable(confirmation, serviceOk) ==
    IF IsConfirmed(confirmation)
    THEN [ret |-> IF serviceOk THEN Returned(<<>>) ELSE Thrown("service error"),
          events |-> <<TraceEvent,
                       ServiceEvent("deleteTable", ("TableName" :> TableName))>>]
    ELSE [ret |-> Thrown("Missing required confirmation"), events |-> <<>>]

Confirmations == {ConfirmRemoveTable, "deleteTableForever", "undefined"}

CreateTable ==
    /\ call = NoCall
    /\ HasPrimary(indexes)
    /\ \E provisioned \in BOOLEAN, serviceOk \in BOOLEAN :
        LET r == createTable(indexes, provisioned, serviceOk) IN
        /\ call' = [op |-> "createTable", provisioned |-> provisioned,
                    serviceOk |-> serviceOk]
        /\ ret' = r.ret
        /\ events' = r.events
    /\ UNCHANGED <<crypto, V3, metrics, indexes, info>>

DeleteTable ==
    /\ call = NoCall
    /\ \E confirmation \in Confirmations, serviceOk \in BOOLEAN :
        LET r == deleteTable(confirmation, serviceOk) IN
        /\ call' = [op |-> "deleteTable", confirmation |-> confirmation,
                    serviceOk |-> serviceOk]
        /\ ret' = r.ret
        /\ events' = r.events
    /\ UNCHANGED <<crypto, V3, metrics, indexes, info>>

\* The shapes an index of the schema may have.
PrimaryShapes ==
    {Index("primary", "pk", Null, "undefined"),
     Index("primary", "pk", "sk", "undefined"),
     Index("primary", "constructor", "sk", "undefined")}

SecondaryName(n) == IF n = 0 THEN "ix1" ELSE IF n = 1 THEN "ix2"
                    ELSE IF n = 2 THEN "ix3" ELSE "ix4"

SecondaryShapes(n) ==
    {Index(SecondaryName(n), h, s, p) :
        h \in {Null, "pk", "gk"}, s \in {Null, "sk"},
        p \in {"undefined", "keys", "list"}}

Secondaries(ixs) == Cardinality({i \in 1..Len(ixs) : ixs[i].name # "primary"})

\* The schema collaborator declares one more index: the primary one, once,
\* or a further secondary one.  The order of declaration is free.
AddIndex ==
    /\ call = NoCall
    /\ \E index \in (IF HasPrimary(indexes) THEN {} ELSE PrimaryShapes)
                    \cup (IF Secondaries(indexes) < MaxSecondary
                          THEN SecondaryShapes(Secondaries(indexes)) ELSE {}) :
        indexes' = Append(indexes, index)
    /\ UNCHANGED <<crypto, V3, metrics, call, ret, events, info>>

\* The constructor: no index is declared yet.
InitTable ==
    /\ crypto = NoCrypto
    /\ V3 \in BOOLEAN
    /\ metrics = FALSE
    /\ indexes = <<>>
    /\ call = NoCall
    /\ ret = Returned(<<>>)
    /\ events = <<>>
    /\ info = NoInfo

NextTable == AddIndex \/ CreateTable \/ DeleteTable \/ Done

SpecTable == InitTable /\ [][NextTable]_vars

\* The definition the last createTable sent to the service
SentDefinitions ==
    {events[i].arg : i \in {j \in 1..Len(events) :
        events[j].type = "service" /\ events[j].method = "createTable"}}

\* C8: the definition createTable sends has a KeySchema of exactly one HASH
\* entry, the primary's hash attribute, followed by the RANGE entry of the
\* primary's sort attribute iff one is declared; LocalSecondaryIndexes and
\* GlobalSecondaryIndexes are each absent or non-empty.
C8_KeySchemaAndCollections ==
    call.op = "createTable"
    => \A def \in SentDefinitions :
        LET primary == Primary(indexes) IN
        /\ def["KeySchema"] =
             <<[AttributeName |-> primary.hash, KeyType |-> "HASH"]>>
             \o (IF primary.sort # Null
                 THEN <<[AttributeName |-> primary.sort, KeyType |-> "RANGE"]>>
                 ELSE <<>>)
        /\ \A c \in {"LocalSecondaryIndexes", "GlobalSecondaryIndexes"} :
             c \in DOMAIN def => def[c] # <<>>

\* a definition is sent for a schema with a global index and no local one,
\* declared before the primary index
C8_Witness ==
    /\ call.op = "createTable"
    /\ Len(indexes) = 2
    /\ indexes[2].name = "primary"
    /\ indexes[2].sort = Null
    /\ \E def \in SentDefinitions :
        /\ "LocalSecondaryIndexes" \notin DOMAIN def
        /\ "GlobalSecondaryIndexes" \in DOMAIN def
        /\ Len(def["KeySchema"]) = 1

ServiceInvoked == \E i \in 1..Len(events) : events[i].type = "service"

HasProjectingLocalIndex(ixs) ==
    \E i \in 1..Len(ixs) :
        /\ ixs[i].name # "primary"
        /\ (ixs[i].hash = Null \/ ixs[i].hash = Primary(ixs).hash)
        /\ ixs[i].project # "undefined"

\* C9: createTable on a schema with a local index (hash absent or the
\* primary's) that declares a projection, and deleteTable without the exact
\* confirmation phrase, raise an error and do not invoke the service,
\* whatever the order of the indexes.
C9_ConfigurationErrors ==
    /\ (call.op = "createTable" /\ HasProjectingLocalIndex(indexes))
       => (ret.threw /\ ~ServiceInvoked)
    /\ (call.op = "deleteTable" /\ call.confirmation # ConfirmRemoveTable)
       => (ret.threw /\ ~ServiceInvoked)

\* createTable throws for a projecting local index without a hash, declared
\* after a global index and before the primary index
C9_Witness ==
    /\ call.op = "createTable"
    /\ Len(indexes) = 3
    /\ indexes[3].name = "primary"
    /\ indexes[1].hash = "gk"
    /\ indexes[2].hash = Null
    /\ indexes[2].project = "keys"
    /\ ret = Thrown("Unwanted project for LSI")
    /\ events = <<>>

\* The attribute names in the key schemas of a definition
KeyNames(keySchema) == {keySchema[i].AttributeName : i \in 1..Len(keySchema)}

CollectionKeys(def, c) ==
    IF c \in DOMAIN def
    THEN UNION {KeyNames(def[c][i].KeySchema) : i \in 1..Len(def[c])}
    ELSE {}

KeyAttributes(def) ==
    KeyNames(def["KeySchema"])
    \cup CollectionKeys(def, "LocalSecondaryIndexes")
    \cup CollectionKeys(def, "GlobalSecondaryIndexes")

\* C10: AttributeDefinitions of the definition createTable builds holds
\* exactly one entry for every attribute name that is a hash or sort key of
\* the key schema of any index, and no other entry.
C10_AttributeDefinitions ==
    call.op = "createTable"
    => \A def \in SentDefinitions :
        LET ads == def["AttributeDefinitions"]
            names == {ads[i].AttributeName : i \in 1..Len(ads)}
        IN  /\ names = KeyAttributes(def)
            /\ Cardinality(names) = Len(ads)

\* The same, for schemas none of whose key attributes bears the name of a
\* property of Object.prototype.
C10_OrdinaryNames ==
    call.op = "createTable"
    => \A def \in SentDefinitions :
        LET ads == def["AttributeDefinitions"]
            names == {ads[i].AttributeName : i \in 1..Len(ads)}
        IN  KeyAttributes(def) \cap ObjectPrototypeNames = {}
            => /\ names = KeyAttributes(def)
               /\ Cardinality(names) = Len(ads)

(***************************************************************************)
(* Format compatibility layer                                              *)
(***************************************************************************)
\* value instanceof Set
IsSet(value) == "t" \in DOMAIN value /\ value.t = "Set"

\* Array.from(set): the members in some order
RECURSIVE ArrayFrom(_)
ArrayFrom(set) ==
    IF set = {} THEN <<>>
    ELSE LET e == CHOOSE x \in set : TRUE IN <<e>> \o ArrayFrom(set \ {e})

\* The legacy client's createSet(list): the set wrapper, typed by its first
\* member.
CreateSet(list) ==
    [t |-> "SetWrapper",
     type |-> IF list = <<>> THEN "none"
              ELSE IF list[1].t = "string" THEN "String" ELSE "Binary",
     values |-> list]

\* Table.marshallv2: of the entries of its argument, those that are a Set
\* are wrapped.  The argument is an item, or whatever else it is handed.
marshallv2(item) ==
    [key \in DOMAIN item |->
        IF IsSet(item[key]) THEN CreateSet(ArrayFrom(item[key].v)) ELSE item[key]]

\* The V3 client's marshall: native attribute values to wire ones.
ClientMarshall(item) ==
    [key \in DOMAIN item |->
        IF item[key].t = "string" THEN WireS(item[key].v)
        ELSE IF item[key].t = "Set" THEN
            LET list == ArrayFrom(item[key].v) IN
            IF list # <<>> /\ list[1].t # "string"
            THEN [t |-> "BS", v |-> [i \in 1..Len(list) |-> list[i].v]]
            ELSE [t |-> "SS", v |-> [i \in 1..Len(list) |-> list[i].v]]
        ELSE item[key]]

\* The legacy branch of marshall for an array: item.length times,
\* item = this.marshallv2(item), the array itself being the argument.
RECURSIVE MarshallArrayV2(_, _)
MarshallArrayV2(items, n) ==
    IF n = 0 THEN items ELSE MarshallArrayV2(marshallv2(items), n - 1)

\* Table.marshall, of an array Arr(items) or of one item Obj(item)
marshall(x) ==
    IF V3 THEN
        IF x.kind = "array"
        THEN Arr([i \in 1..Len(x.items) |-> ClientMarshall(x.items[i])])
        ELSE Obj(ClientMarshall(x.fields))
    ELSE
        IF x.kind = "array"
        THEN Arr(MarshallArrayV2(x.items, Len(x.items)))
        ELSE Obj(marshallv2(x.fields))

\* Table.unmarshall, of an array Arr(items) or of one item Obj(item)
unmarshallAll(x) ==
    IF x.kind = "array"
    THEN Arr([i \in 1..Len(x.items) |-> unmarshall(x.items[i])])
    ELSE Obj(unmarshall(x.fields))

\* Inputs: native items with an id and, or not, a set-valued field tags
\* a Buffer, its bytes written in hex
Buffer(bytes) == [t |-> "Buffer", v |-> bytes]
SetValue(members) == [t |-> "Set", v |-> members]
SetValues ==
    {SetValue(m) : m \in SUBSET {Str("a"), Str("b")}}
    \cup {SetValue(m) : m \in (SUBSET {Buffer("01"), Buffer("0203")}) \ {{}}}

NativeItems ==
    {("id" :> Str("x"))} \cup {("id" :> Str("x") @@ "tags" :> sv) : sv \in SetValues}

MarshallInputs ==
    {Obj(item) : item \in NativeItems}
    \cup {Arr(items) : items \in UNION {[1..n -> NativeItems] : n \in 0..MaxItems}}

Marshall ==
    /\ call = NoCall
    /\ \E x \in MarshallInputs :
        /\ call' = [op |-> "marshall", input |-> x]
        /\ ret' = Returned(marshall(x))
    /\ events' = <<>>
    /\ UNCHANGED <<crypto, V3, metrics, indexes, info>>

\* What marshall returned is handed back to unmarshall.
Unmarshall ==
    /\ call.op = "marshall"
    /\ call' = [op |-> "unmarshall", input |-> ret.value, original |-> call.input]
    /\ ret' = Returned(unmarshallAll(ret.value))
    /\ events' = <<>>
    /\ UNCHANGED <<crypto, V3, metrics, indexes, info>>

\* The constructor: either client generation.
InitFormat ==
    /\ crypto = NoCrypto
    /\ V3 \in BOOLEAN
    /\ metrics = FALSE
    /\ indexes = <<>>
    /\ call = NoCall
    /\ ret = Returned(<<>>)
    /\ events = <<>>
    /\ info = NoInfo

NextFormat == Marshall \/ Unmarshall \/ Done

SpecFormat == InitFormat /\ [][NextFormat]_vars

\* The members of a set value, binary members by their bytes
Members(value) ==
    {IF e.t \in {"Buffer", "Uint8Array"} THEN [t |-> "binary", v |-> e.v] ELSE e :
        e \in value.v}

\* every set-valued field of item is a set with the same members in back
SameSets(item, back) ==
    \A key \in DOMAIN item :
        IsSet(item[key])
        => /\ key \in DOMAIN back
           /\ IsSet(back[key])
           /\ Members(back[key]) = Members(item[key])

ItemsOf(x) == IF x.kind = "array" THEN x.items ELSE <<x.fields>>

\* after unmarshall(marshall(.)) every set-valued field of every item is
\* set-equal to the original
RoundTripsSets ==
    call.op = "unmarshall"
    => /\ ret.value.kind = call.original.kind
       /\ Len(ItemsOf(ret.value)) = Len(ItemsOf(call.original))
       /\ \A i \in 1..Len(ItemsOf(call.original)) :
            SameSets(ItemsOf(call.original)[i], ItemsOf(ret.value)[i])

\* under the legacy generation, marshall of a sequence wraps the set-valued
\* fields of each item as marshall of that item alone does
WrapsEachItem ==
    (call.op = "marshall" /\ ~V3 /\ call.input.kind = "array")
    => /\ Len(ret.value.items) = Len(call.input.items)
       /\ \A i \in 1..Len(call.input.items) :
            Obj(ret.value.items[i]) = marshall(Obj(call.input.items[i]))

\* C11: under either client generation, for one item or a sequence of items,
\* every set-valued field is set-equal after unmarshall(marshall(.)) to the
\* original, empty and binary sets included; and under the legacy generation
\* marshall of a sequence wraps the set-valued fields of each item exactly as
\* marshall of that item alone does.
C11_SetRoundTrip == RoundTripsSets /\ WrapsEachItem

UnknownProfileToken ==
    /\ call.op = "decrypt"
    /\ call.text # <<>>
    /\ Len(Split(call.text)) = 4
    /\ (~crypto.defined \/ Split(call.text)[1] \notin DOMAIN crypto.map)

AllFieldsPresent == \A i \in 1..4 : Split(call.text)[i] # <<>>

FailureLogs ==
    {i \in 1..Len(events) : events[i].type = "log" /\ events[i].err # NoErr}

\* C13: in execute, on every path on which a failure of the client call is
\* logged (at info for a put conflict, at error severity otherwise), the
\* trace handed to the log already carries the error.
C13_TraceMarkedBeforeLog ==
    ExecuteFailed
    => \A i \in FailureLogs : events[i].trace.err = ClientErr

EventsOf(type) == {i \in 1..Len(events) : events[i].type = type}

\* the result execute hands on: the client's, or {} for a suppressed failure
HandedResult ==
    IF call.outcome.ok THEN call.outcome.result ELSE EmptyObject

\* C14: with metrics attached, when the client call of an execute succeeds,
\* or fails with throw === false, metrics.add is invoked exactly once, after
\* the client call and before execute returns, with the call's model, its
\* operation kind, the result (the client's, or the substituted empty
\* mapping), the caller's options and the timestamp taken at entry, before
\* the client is invoked.
C14_MetricsRecordedOnce ==
    (/\ call.op = "execute"
     /\ metrics
     /\ (call.outcome.ok \/ call.params.throw = "false"))
    => /\ Cardinality(EventsOf("metrics")) = 1
       /\ Cardinality(EventsOf("client")) = 1
       /\ ret = Returned(HandedResult)
       /\ \A m \in EventsOf("metrics") :
            /\ \A c \in EventsOf("client") : c < m
            /\ m = Len(events)
            /\ events[m].model = call.model
            /\ events[m].op = call.kind
            /\ events[m].result = HandedResult
            /\ events[m].params = call.params
            /\ events[events[m].mark].type = "date"
            /\ \A c \in EventsOf("client") : events[m].mark < c
            /\ events[m].mark = 1

\* a successful get with options of the caller's, metrics attached
C14_Witness ==
    /\ call.op = "execute"
    /\ metrics
    /\ call.outcome.ok
    /\ call.kind = "get"
    /\ call.params.log = "true"
    /\ call.params.stats
    /\ Cardinality(EventsOf("metrics")) = 1
    /\ events[Len(events)].type = "metrics"
    /\ events[Len(events)].params = call.params
    /\ ~ret.threw

====
